---- MODULE Spec2Model ----
(***************************************************************************)
(* A model of primitives/runtime/src/traits.rs: the signed-extension       *)
(* pipeline (trait SignedExtension, its tuple composition and the unit     *)
(* implementation), the sub-account derivation built on TrailingZeroInput, *)
(* the padding adapters TrailingZeroInput and AppendZerosInput, the Verify *)
(* and AppVerify implementations of the signature schemes, and the hashes  *)
(* of headers and blocks.                                                  *)
(***************************************************************************)
EXTENDS Integers, Sequences, FiniteSets, TLC

VARIABLES
    ext,        \* the transaction's extension chain: a sequence of members
    args,       \* the (who, call, info, len) the transaction is processed with
    stage,      \* the transaction's lifecycle state
    signedRes,  \* result of the chain's additional_signed
    validRes,   \* result of the chain's validate
    preRes,     \* result of the chain's pre_dispatch (the carry when Ok)
    calls,      \* history: every member hook call (and the dispatch), in call order
    store,      \* shared state: the log of mutations the hooks have made
    before,     \* history: store on entry to the latest pipeline call
    deriv,      \* one sub-account derivation: its inputs, the identifier, the recovery
    adapter,    \* one padding adapter over a byte source, and the reads made of it
    verification, \* one Verify::verify call: its inputs, its steps, its result
    block       \* one header being set up, the blocks built on it, their hashes

pipeVars == <<ext, args, stage, signedRes, validRes, preRes, calls, store, before>>

\* The variables the pipeline and the derivations leave alone.
ioVars == <<adapter, verification, block>>

vars == <<ext, args, stage, signedRes, validRes, preRes, calls, store, before, deriv,
          adapter, verification, block>>

----------------------------------------------------------------------------
(* Bounds *)

\* Longest extension chain explored (the tuple impl covers arities 1..12).
MaxArity == 3

\* Longest Vec<u8> sub-value explored.
MaxVecLen == 2

\* Longest byte source a padding adapter wraps.
MaxData == 3

\* Longest buffer handed to a padding adapter's read.
MaxRead == 3

\* Most reads made of one padding adapter.
MaxReads == 3

\* Most setter calls made on one header.
MaxSets == 2

\* Most items in a header's digest.
MaxLogs == 1

----------------------------------------------------------------------------
(* Results: Result<T, TransactionValidityError> *)

Ok(v) == [ok |-> TRUE, val |-> v]

Err(e) == [ok |-> FALSE, val |-> e]

Pending == Err("pending")

IsPending(r) == IF r.ok THEN FALSE ELSE r.val = "pending"

IsErr(r) == (~r.ok) /\ ~IsPending(r)

----------------------------------------------------------------------------
(* ValidTransaction: the descriptor validate returns *)

\* ValidTransaction::default()
DefaultValid == [priority |-> 0, provides |-> <<>>]

\* ValidTransaction::combine_with: priorities add, tags are appended in order.
CombineWith(a, b) ==
    [priority |-> a.priority + b.priority, provides |-> a.provides \o b.provides]

\* Pre::default() of a member
DefaultPre == "default"

----------------------------------------------------------------------------
(* Members of a chain.  A member is one implementation of SignedExtension:  *)
(* what its additional_signed returns, which provided methods it overrides  *)
(* and what the overriding bodies return.  A validate body checks the       *)
(* transaction against current state and mutates nothing; that state may    *)
(* move between pool admission and dispatch: valid is what the body returns *)
(* the first time it runs, later what it returns from then on.  An          *)
(* overriding pre_dispatch does the member's pre-flight work: with writes   *)
(* it mutates shared state when it succeeds, and its post_dispatch settles  *)
(* the carry there.                                                         *)

DescA == [priority |-> 1, provides |-> <<"a">>]

DescB == [priority |-> 2, provides |-> <<"b">>]

Member(s, o, v, l, p, w) ==
    [signed |-> s, overrides |-> o, valid |-> v, later |-> l, pre |-> p, writes |-> w]

\* Members that only implement the required additional_signed.
SignedMembers ==
    { Member(s, {}, Ok(DefaultValid), Ok(DefaultValid), Ok(DefaultPre), FALSE) :
        s \in {Ok("x"), Ok("y"), Err("Stale"), Err("BadProof")} }

\* Members that override validate and inherit pre_dispatch and post_dispatch.
ValidateMembers ==
    { Member(Ok("x"), {"validate"}, v, v, Ok(DefaultPre), FALSE) :
        v \in {Ok(DescA), Ok(DescB), Err("Stale"), Err("BadProof")} }
    \cup { Member(Ok("x"), {}, Ok(DefaultValid), Ok(DefaultValid), Ok(DefaultPre), FALSE) }

\* Members that override validate and inherit pre_dispatch (the transaction may
\* have gone stale by the time it is dispatched), and members that override
\* pre_dispatch together with post_dispatch.
DispatchMembers ==
    { Member(Ok("x"), {"validate"}, vl[1], vl[2], Ok(DefaultPre), FALSE) :
        vl \in {<<Ok(DescA), Ok(DescA)>>, <<Ok(DescA), Err("Stale")>>,
                <<Err("Stale"), Err("Stale")>>} }
    \cup
    { Member(Ok("x"), {"validate", "pre_dispatch", "post_dispatch"},
             Ok(DescB), Ok(DescB), pw[1], pw[2]) :
        pw \in {<<Ok("imbalance"), FALSE>>, <<Ok("imbalance"), TRUE>>,
                <<Err("Payment"), FALSE>>} }

Families == {SignedMembers, ValidateMembers, DispatchMembers}

Chains(S) == UNION { [1..n -> S] : n \in 0..MaxArity }

Args ==
    { [who |-> "alice", call |-> "transfer", info |-> "normal", len |-> 1],
      [who |-> "bob", call |-> "remark", info |-> "operational", len |-> 2] }

----------------------------------------------------------------------------
(* History records *)

Ev(hook, i, a, ret) == [hook |-> hook, member |-> i, args |-> a, ret |-> ret]

Wr(hook, i, what) == [hook |-> hook, member |-> i, what |-> what]

----------------------------------------------------------------------------
(* trait SignedExtension: the provided (default) methods *)

\* fn validate(&self, _who, _call, _info, _len): Ok(ValidTransaction::default())
DefaultValidate == Ok(DefaultValid)

\* The tail of the default pre_dispatch: .map(|_| Self::Pre::default()).map_err(Into::into)
\* Variant that drops validate's error along with its descriptor.
MapAlwaysDefaultPre(v) == Ok(DefaultPre)

MapToDefaultPre(v) == IF v.ok THEN Ok(DefaultPre) ELSE Err(v.val)

----------------------------------------------------------------------------
(* One member's hooks.  st = [calls, store] is threaded through every call; *)
(* each hook returns [ret, calls, store].                                   *)

CallAdditionalSigned(m, i, st) ==
    [ret |-> m.signed,
     calls |-> Append(st.calls, Ev("additional_signed", i, <<>>, m.signed)),
     store |-> st.store]

\* Whether member i's validate has run before in this history.
RanValidate(cs, i) ==
    \E k \in 1..Len(cs) : cs[k].hook = "validate" /\ cs[k].member = i

CallValidate(m, i, a, st) ==
    LET custom == "validate" \in m.overrides
        body == IF RanValidate(st.calls, i) THEN m.later ELSE m.valid
        ret == IF custom THEN body ELSE DefaultValidate
    IN  [ret |-> ret,
         calls |-> Append(st.calls, Ev("validate", i, a, ret)),
         store |-> st.store]

\* The provided pre_dispatch: self.validate(who, call, info.clone(), len), then
\* the descriptor is dropped for the default carry and an error is passed on.
DefaultPreDispatch(m, i, a, st) ==
    LET v == CallValidate(m, i, a, st)
        ret == MapToDefaultPre(v.ret)
    IN  [ret |-> ret,
         calls |-> st.calls \o <<Ev("pre_dispatch", i, a, ret), v.calls[Len(v.calls)]>>,
         store |-> v.store]

CallPreDispatch(m, i, a, st) ==
    IF "pre_dispatch" \in m.overrides
    THEN [ret |-> m.pre,
          calls |-> Append(st.calls, Ev("pre_dispatch", i, a, m.pre)),
          store |-> IF m.writes /\ m.pre.ok
                    THEN Append(st.store, Wr("pre_dispatch", i, a.who))
                    ELSE st.store]
    ELSE DefaultPreDispatch(m, i, a, st)

\* post_dispatch is an associated function: it gets the carry, info and len.
CallPostDispatch(m, i, pre, info, len, st) ==
    [ret |-> Ok(<<>>),
     calls |-> Append(st.calls,
                  Ev("post_dispatch", i, [pre |-> pre, info |-> info, len |-> len], Ok(<<>>))),
     store |-> IF "post_dispatch" \in m.overrides /\ m.writes
               THEN Append(st.store, Wr("post_dispatch", i, pre))
               ELSE st.store]

----------------------------------------------------------------------------
(* impl SignedExtension for Tuple: the for_tuples! expansions, member by    *)
(* member from position i on.                                               *)

RECURSIVE AdditionalSignedFrom(_, _, _, _)
\* Ok(( T1.additional_signed()?, T2.additional_signed()?, ... ))
AdditionalSignedFrom(chain, i, acc, st) ==
    IF i > Len(chain)
    THEN [ret |-> Ok(acc), calls |-> st.calls, store |-> st.store]
    ELSE LET r == CallAdditionalSigned(chain[i], i, st)
         IN  IF ~r.ret.ok
             THEN r
             ELSE AdditionalSignedFrom(chain, i + 1, Append(acc, r.ret.val),
                                       [calls |-> r.calls, store |-> r.store])

RECURSIVE AdditionalSignedEager(_, _, _, _, _)
\* Variant that evaluates every member and only then reports the first error.
AdditionalSignedEager(chain, i, acc, first, st) ==
    IF i > Len(chain)
    THEN [ret |-> IF first = 0 THEN Ok(acc) ELSE chain[first].signed,
          calls |-> st.calls, store |-> st.store]
    ELSE LET r == CallAdditionalSigned(chain[i], i, st)
         IN  AdditionalSignedEager(chain, i + 1,
                 IF r.ret.ok THEN Append(acc, r.ret.val) ELSE acc,
                 IF first = 0 /\ ~r.ret.ok THEN i ELSE first,
                 [calls |-> r.calls, store |-> r.store])

TupleAdditionalSignedEager(chain, st) == AdditionalSignedEager(chain, 1, <<>>, 0, st)

TupleAdditionalSigned(chain, st) == AdditionalSignedFrom(chain, 1, <<>>, st)

RECURSIVE ValidateFrom(_, _, _, _, _)
\* let valid = valid.combine_with(Ti.validate(who, call, info.clone(), len)?);
ValidateFrom(chain, i, a, valid, st) ==
    IF i > Len(chain)
    THEN [ret |-> Ok(valid), calls |-> st.calls, store |-> st.store]
    ELSE LET r == CallValidate(chain[i], i, a, st)
         IN  IF ~r.ret.ok
             THEN r
             ELSE ValidateFrom(chain, i + 1, a, CombineWith(valid, r.ret.val),
                               [calls |-> r.calls, store |-> r.store])

RECURSIVE ValidateReversed(_, _, _, _, _)
\* Variant that merges the accumulated descriptor into each member's, so the
\* descriptors end up combined in reverse member order.
ValidateReversed(chain, i, a, valid, st) ==
    IF i > Len(chain)
    THEN [ret |-> Ok(valid), calls |-> st.calls, store |-> st.store]
    ELSE LET r == CallValidate(chain[i], i, a, st)
         IN  IF ~r.ret.ok
             THEN r
             ELSE ValidateReversed(chain, i + 1, a, CombineWith(r.ret.val, valid),
                                   [calls |-> r.calls, store |-> r.store])

TupleValidateReversed(chain, a, st) == ValidateReversed(chain, 1, a, DefaultValid, st)

RECURSIVE ValidateLastError(_, _, _, _, _, _)
\* Variant that goes on after a failure and reports the last error seen.
ValidateLastError(chain, i, a, valid, last, st) ==
    IF i > Len(chain)
    THEN [ret |-> IF last.ok THEN Ok(valid) ELSE last,
          calls |-> st.calls, store |-> st.store]
    ELSE LET r == CallValidate(chain[i], i, a, st)
         IN  ValidateLastError(chain, i + 1, a,
                 IF r.ret.ok THEN CombineWith(valid, r.ret.val) ELSE valid,
                 IF r.ret.ok THEN last ELSE r.ret,
                 [calls |-> r.calls, store |-> r.store])

TupleValidateLastError(chain, a, st) ==
    ValidateLastError(chain, 1, a, DefaultValid, Ok(DefaultValid), st)

\* let valid = ValidTransaction::default(); ...; Ok(valid)
TupleValidate(chain, a, st) == ValidateFrom(chain, 1, a, DefaultValid, st)

RECURSIVE PreDispatchFrom(_, _, _, _, _)
\* Ok(( T1.pre_dispatch(who, call, info.clone(), len)?, ... ))
PreDispatchFrom(chain, i, a, acc, st) ==
    IF i > Len(chain)
    THEN [ret |-> Ok(acc), calls |-> st.calls, store |-> st.store]
    ELSE LET r == CallPreDispatch(chain[i], i, a, st)
         IN  IF ~r.ret.ok
             THEN r
             ELSE PreDispatchFrom(chain, i + 1, a, Append(acc, r.ret.val),
                                  [calls |-> r.calls, store |-> r.store])

RECURSIVE PreDispatchLenient(_, _, _, _, _)
\* Variant without the ?: a failing member contributes the default carry.
PreDispatchLenient(chain, i, a, acc, st) ==
    IF i > Len(chain)
    THEN [ret |-> Ok(acc), calls |-> st.calls, store |-> st.store]
    ELSE LET r == CallPreDispatch(chain[i], i, a, st)
         IN  PreDispatchLenient(chain, i + 1, a,
                 Append(acc, IF r.ret.ok THEN r.ret.val ELSE DefaultPre),
                 [calls |-> r.calls, store |-> r.store])

TuplePreDispatchLenient(chain, a, st) == PreDispatchLenient(chain, 1, a, <<>>, st)

\* Variant that undoes the members' mutations when a member fails.
TuplePreDispatchRollback(chain, a, st) ==
    LET r == PreDispatchFrom(chain, 1, a, <<>>, st)
    IN  IF r.ret.ok THEN r ELSE [r EXCEPT !.store = st.store]

RECURSIVE PreDispatchEager(_, _, _, _, _, _)
\* Variant that runs every member's pre_dispatch and only then reports the
\* first error.
PreDispatchEager(chain, i, a, acc, first, st) ==
    IF i > Len(chain)
    THEN [ret |-> IF first.ok THEN Ok(acc) ELSE first,
          calls |-> st.calls, store |-> st.store]
    ELSE LET r == CallPreDispatch(chain[i], i, a, st)
         IN  PreDispatchEager(chain, i + 1, a,
                 IF r.ret.ok THEN Append(acc, r.ret.val) ELSE acc,
                 IF first.ok /\ ~r.ret.ok THEN r.ret ELSE first,
                 [calls |-> r.calls, store |-> r.store])

TuplePreDispatchEager(chain, a, st) ==
    PreDispatchEager(chain, 1, a, <<>>, Ok(<<>>), st)

TuplePreDispatch(chain, a, st) == PreDispatchFrom(chain, 1, a, <<>>, st)

RECURSIVE PostDispatchFrom(_, _, _, _, _, _)
\* Ti::post_dispatch(pre.i, info.clone(), len);
PostDispatchFrom(chain, i, pre, info, len, st) ==
    IF i > Len(chain)
    THEN [ret |-> Ok(<<>>), calls |-> st.calls, store |-> st.store]
    ELSE LET r == CallPostDispatch(chain[i], i, pre[i], info, len, st)
         IN  PostDispatchFrom(chain, i + 1, pre, info, len,
                              [calls |-> r.calls, store |-> r.store])

RECURSIVE PostDispatchSkipDefault(_, _, _, _, _, _)
\* Variant that skips the hook of a member whose carry is the default value.
PostDispatchSkipDefault(chain, i, pre, info, len, st) ==
    IF i > Len(chain)
    THEN [ret |-> Ok(<<>>), calls |-> st.calls, store |-> st.store]
    ELSE LET r == IF pre[i] = DefaultPre
                  THEN [ret |-> Ok(<<>>), calls |-> st.calls, store |-> st.store]
                  ELSE CallPostDispatch(chain[i], i, pre[i], info, len, st)
         IN  PostDispatchSkipDefault(chain, i + 1, pre, info, len,
                                     [calls |-> r.calls, store |-> r.store])

TuplePostDispatchSkipDefault(chain, pre, info, len, st) ==
    PostDispatchSkipDefault(chain, 1, pre, info, len, st)

TuplePostDispatch(chain, pre, info, len, st) ==
    PostDispatchFrom(chain, 1, pre, info, len, st)

----------------------------------------------------------------------------
(* impl SignedExtension for (): additional_signed is Ok(()), every other    *)
(* method is the provided one; its carry Pre = () is the empty tuple.       *)

\* Variant in which the unit extension refuses to build signed data.
UnitAdditionalSignedRefuses(st) ==
    [ret |-> Err("UnknownTransaction"), calls |-> st.calls, store |-> st.store]

UnitAdditionalSigned(st) == [ret |-> Ok(<<>>), calls |-> st.calls, store |-> st.store]

UnitValidate(a, st) == [ret |-> DefaultValidate, calls |-> st.calls, store |-> st.store]

UnitPreDispatch(a, st) ==
    LET v == UnitValidate(a, st)
    IN  [ret |-> IF v.ret.ok THEN Ok(<<>>) ELSE Err(v.ret.val),
         calls |-> v.calls, store |-> v.store]

UnitPostDispatch(pre, info, len, st) ==
    [ret |-> Ok(<<>>), calls |-> st.calls, store |-> st.store]

----------------------------------------------------------------------------
(* The chain as one extension: the unit impl for the empty chain, the tuple *)
(* impl for arities from 1.                                                 *)

ChainAdditionalSigned(chain, st) ==
    IF Len(chain) = 0 THEN UnitAdditionalSigned(st) ELSE TupleAdditionalSigned(chain, st)

ChainValidate(chain, a, st) ==
    IF Len(chain) = 0 THEN UnitValidate(a, st) ELSE TupleValidate(chain, a, st)

ChainPreDispatch(chain, a, st) ==
    IF Len(chain) = 0 THEN UnitPreDispatch(a, st) ELSE TuplePreDispatch(chain, a, st)

ChainPostDispatch(chain, pre, info, len, st) ==
    IF Len(chain) = 0
    THEN UnitPostDispatch(pre, info, len, st)
    ELSE TuplePostDispatch(chain, pre, info, len, st)

----------------------------------------------------------------------------
(* The life of one transaction.  The states are                             *)
(* Unvalidated -> Validated -> PreDispatched -> Dispatched -> PostDispatched *)
(* or Rejected at additional_signed, validate or pre_dispatch.              *)

Init ==
    /\ \E F \in Families : ext \in Chains(F)
    /\ args \in Args
    /\ stage = "Unvalidated"
    /\ signedRes = Pending
    /\ validRes = Pending
    /\ preRes = Pending
    /\ calls = <<>>
    /\ store = <<>>
    /\ before = <<>>
    /\ block = [step |-> "idle"]
    /\ deriv = [step |-> "idle"]
    /\ adapter = [step |-> "idle"]
    /\ verification = [step |-> "idle"]

Here == [calls |-> calls, store |-> store]

\* The signed payload is built: additional_signed of the chain.
AdditionalSigned ==
    /\ stage = "Unvalidated"
    /\ IsPending(signedRes)
    /\ LET r == ChainAdditionalSigned(ext, Here)
       IN  /\ signedRes' = r.ret
           /\ calls' = r.calls
           /\ store' = r.store
           /\ stage' = IF r.ret.ok THEN stage ELSE "Rejected"
    /\ before' = store
    /\ UNCHANGED <<ext, args, validRes, preRes, deriv, ioVars>>

\* Pool admission: validate of the chain.
Validate ==
    /\ stage = "Unvalidated"
    /\ signedRes.ok
    /\ LET r == ChainValidate(ext, args, Here)
       IN  /\ validRes' = r.ret
           /\ calls' = r.calls
           /\ store' = r.store
           /\ stage' = IF r.ret.ok THEN "Validated" ELSE "Rejected"
    /\ before' = store
    /\ UNCHANGED <<ext, args, signedRes, preRes, deriv, ioVars>>

\* The dispatcher consumes the chain: pre_dispatch.
PreDispatch ==
    /\ stage = "Validated"
    /\ LET r == ChainPreDispatch(ext, args, Here)
       IN  /\ preRes' = r.ret
           /\ calls' = r.calls
           /\ store' = r.store
           /\ stage' = IF r.ret.ok THEN "PreDispatched" ELSE "Rejected"
    /\ before' = store
    /\ UNCHANGED <<ext, args, signedRes, validRes, deriv, ioVars>>

\* The call is dispatched by the external dispatcher; it may succeed or fail.
Dispatch ==
    /\ stage = "PreDispatched"
    /\ \E outcome \in {"ok", "failed"} :
          calls' = Append(calls, Ev("dispatch", 0, args, outcome))
    /\ stage' = "Dispatched"
    /\ UNCHANGED <<ext, args, signedRes, validRes, preRes, store, before, deriv, ioVars>>

\* post_dispatch of the chain with the carry of pre_dispatch.
PostDispatch ==
    /\ stage = "Dispatched"
    /\ LET r == ChainPostDispatch(ext, preRes.val, args.info, args.len, Here)
       IN  /\ calls' = r.calls
           /\ store' = r.store
    /\ before' = store
    /\ stage' = "PostDispatched"
    /\ UNCHANGED <<ext, args, signedRes, validRes, preRes, deriv, ioVars>>

Next ==
    \/ AdditionalSigned
    \/ Validate
    \/ PreDispatch
    \/ Dispatch
    \/ PostDispatch

Spec == Init /\ [][Next]_vars

----------------------------------------------------------------------------
(* The codec.  An unsigned integer is written as its numeral: the sequence  *)
(* of its base-256 digits, most significant first, as many as its type has  *)
(* bytes (0xc0da is <<192, 218>>).  Its encoding is little-endian.          *)

Reverse(s) == [i \in 1..Len(s) |-> s[Len(s) + 1 - i]]

Zeros(n) == [i \in 1..n |-> 0]

Min(a, b) == IF a <= b THEN a ELSE b

\* to_le_bytes
EncodeUint(v) == Reverse(v)

\* A decoder reads from the front of a slice and leaves the rest:
\* [ok, val, rest].
Decoded(v, rest) == [ok |-> TRUE, val |-> v, rest |-> rest]

DecodeError == [ok |-> FALSE, val |-> <<>>, rest |-> <<>>]

\* codec::Input for &[u8]: read fails when the slice is shorter than the buffer.
SliceRead(input, n) ==
    IF Len(input) < n
    THEN DecodeError
    ELSE Decoded(SubSeq(input, 1, n), SubSeq(input, n + 1, Len(input)))

\* Decode for a w-byte unsigned integer from a slice.
DecodeUint(w, input) ==
    LET r == SliceRead(input, w)
    IN  IF r.ok THEN Decoded(Reverse(r.val), r.rest) ELSE DecodeError

\* The sub-value types explored: (), u8, u16 and Vec<u8>.
SubTypes == {"unit", "u8", "u16", "bytes"}

\* Vec<u8> is a compact length (lengths below 64: one byte, the length
\* shifted left by two) followed by the bytes.
\* Variant in which every sub-value type writes a length byte first.
EncodeSubWithLength(subType, sub) == <<4 * Len(sub)>> \o Reverse(sub)

EncodeSub(subType, sub) ==
    CASE subType = "unit" -> <<>>
      [] subType = "u8" -> EncodeUint(sub)
      [] subType = "u16" -> EncodeUint(sub)
      [] subType = "u32" -> EncodeUint(sub)
      [] subType = "bytes" -> <<4 * Len(sub)>> \o sub

\* A compact length in another mode stands for 64 or more, which no slice
\* explored here can hold.
DecodeBytes(input) ==
    LET p == SliceRead(input, 1)
    IN  IF ~p.ok THEN DecodeError
        ELSE IF p.val[1] % 4 # 0 THEN DecodeError
        ELSE SliceRead(p.rest, p.val[1] \div 4)

DecodeSub(subType, input) ==
    CASE subType = "unit" -> Decoded(<<>>, input)
      [] subType = "u8" -> DecodeUint(1, input)
      [] subType = "u16" -> DecodeUint(2, input)
      [] subType = "bytes" -> DecodeBytes(input)

----------------------------------------------------------------------------
(* TrailingZeroInput *)

\* Variant that leaves the slice where it was.
TrailingZeroReadNoAdvance(data, n) ==
    LET len_from_inner == Min(n, Len(data))
    IN  [ok |-> TRUE,
         val |-> SubSeq(data, 1, len_from_inner) \o Zeros(n - len_from_inner),
         rest |-> data]

\* codec::Input::read for TrailingZeroInput: the buffer of n bytes gets what
\* the slice still holds, then zeros; the slice is advanced.
TrailingZeroRead(data, n) ==
    LET len_from_inner == Min(n, Len(data))
    IN  [ok |-> TRUE,
         val |-> SubSeq(data, 1, len_from_inner) \o Zeros(n - len_from_inner),
         rest |-> SubSeq(data, len_from_inner + 1, Len(data))]

----------------------------------------------------------------------------
(* AccountIdConversion<T> for Id.  Id is one of the tagged types of the     *)
(* tests; the identifier type T is an unsigned integer of `width` bytes,    *)
(* or bool, the one-byte type whose decoding can fail.                      *)

IdTypes == {"U16Value", "U32Value"}

TYPE_ID(idType) ==
    CASE idType = "U32Value" -> <<13, 240, 254, 202>>
      [] idType = "U16Value" -> <<254, 202, 13, 240>>

IdWidth(idType) ==
    CASE idType = "U32Value" -> 4
      [] idType = "U16Value" -> 2

AccountWidths == {1, 2, 8, 16}

\* The identifier type of one byte is bool.
IsBool(width) == width = 1

\* Decode for bool accepts the bytes 0 and 1 only; every byte sequence of
\* the right length is an unsigned integer.
ValidAccountBytes(width, bytes) == IsBool(width) => bytes[1] \in {0, 1}

\* T::default(): 0, or false
DefaultAccount(width) == Zeros(width)

\* T::decode over a TrailingZeroInput
DecodeAccount(width, data) ==
    LET r == TrailingZeroRead(data, width)
    IN  IF r.ok /\ ValidAccountBytes(width, r.val)
        THEN Decoded(Reverse(r.val), r.rest)
        ELSE DecodeError

\* (Id::TYPE_ID, self, sub).using_encoded(..)
EncodeTagged(idType, x, subType, sub) ==
    TYPE_ID(idType) \o EncodeUint(x) \o EncodeSub(subType, sub)

\* Variant that leaves the sub-value out of the encoded tuple.
IntoAccountIgnoringSub(idType, x, subType, sub, width) ==
    LET r == DecodeAccount(width, TYPE_ID(idType) \o EncodeUint(x))
    IN  IF r.ok THEN r.val ELSE DefaultAccount(width)

\* Variant that keeps the bytes read when they do not decode.
IntoSubAccountNoDefault(idType, x, subType, sub, width) ==
    Reverse(TrailingZeroRead(EncodeTagged(idType, x, subType, sub), width).val)

\* T::decode(&mut TrailingZeroInput(b)).unwrap_or_default()
IntoSubAccount(idType, x, subType, sub, width) ==
    LET r == DecodeAccount(width, EncodeTagged(idType, x, subType, sub))
    IN  IF r.ok THEN r.val ELSE DefaultAccount(width)

\* fn into_account(&self) -> AccountId { self.into_sub_account(&()) }
IntoAccount(idType, x, width) == IntoSubAccount(idType, x, "unit", <<>>, width)

Some(v) == [tag |-> "Some", val |-> v]

None == [tag |-> "None", val |-> <<>>]

\* &d[0..4] on an identifier whose encoding is shorter than the tag
Panicked == [tag |-> "Panic", val |-> <<>>]

NotRun == [tag |-> "NotRun", val |-> <<>>]

\* Variant without the check of the bytes the decode left unread.
TryFromIgnoringTail(idType, subType, account) ==
    LET d == EncodeUint(account)
    IN  IF Len(d) < 4 THEN Panicked
        ELSE IF SubSeq(d, 1, 4) # TYPE_ID(idType) THEN None
        ELSE LET cursor == SubSeq(d, 5, Len(d))
                 self == DecodeUint(IdWidth(idType), cursor)
                 s == IF self.ok THEN DecodeSub(subType, self.rest) ELSE DecodeError
             IN  IF ~s.ok THEN None ELSE Some(<<self.val, s.val>>)

\* Variant that does not compare the first four bytes with TYPE_ID.
TryFromAnyTag(idType, subType, account) ==
    LET d == EncodeUint(account)
    IN  IF Len(d) < 4 THEN Panicked
        ELSE LET cursor == SubSeq(d, 5, Len(d))
                 self == DecodeUint(IdWidth(idType), cursor)
                 s == IF self.ok THEN DecodeSub(subType, self.rest) ELSE DecodeError
             IN  IF ~s.ok THEN None
                 ELSE IF \A k \in 1..Len(s.rest) : s.rest[k] = 0
                      THEN Some(<<self.val, s.val>>)
                      ELSE None

TryFromSubAccount(idType, subType, account) ==
    LET d == EncodeUint(account)
    IN  IF Len(d) < 4 THEN Panicked
        ELSE IF SubSeq(d, 1, 4) # TYPE_ID(idType) THEN None
        ELSE LET cursor == SubSeq(d, 5, Len(d))
                 self == DecodeUint(IdWidth(idType), cursor)
                 s == IF self.ok THEN DecodeSub(subType, self.rest) ELSE DecodeError
             IN  IF ~s.ok THEN None
                 ELSE IF \A k \in 1..Len(s.rest) : s.rest[k] = 0
                      THEN Some(<<self.val, s.val>>)
                      ELSE None

----------------------------------------------------------------------------
(* One derivation: a source value and a sub-value are turned into an        *)
(* identifier, and the identifier is turned back, either as it is or after  *)
(* one of the zero bytes at the end of its encoding was overwritten.        *)

ByteSample == {0, 1, 255}

Numerals(w) == [1..w -> ByteSample]

\* The source values: the sampled ones and, for U32Value, the 0xdeadbeef of
\* tests::into_account_should_work.
SourceValues(idType) ==
    Numerals(IdWidth(idType)) \cup
        (IF idType = "U32Value" THEN {<<222, 173, 190, 239>>} ELSE {})

SubValues(subType) ==
    CASE subType = "unit" -> {<<>>}
      [] subType = "u8" -> Numerals(1)
      [] subType = "u16" -> Numerals(2)
      [] subType = "bytes" -> UNION { [1..n -> ByteSample] : n \in 0..MaxVecLen }

InitAccount ==
    /\ ext = <<>>
    /\ args \in { a \in Args : a.who = "alice" }
    /\ stage = "Idle"
    /\ signedRes = Pending
    /\ validRes = Pending
    /\ preRes = Pending
    /\ calls = <<>>
    /\ store = <<>>
    /\ before = <<>>
    /\ block = [step |-> "idle"]
    /\ adapter = [step |-> "idle"]
    /\ verification = [step |-> "idle"]
    /\ \E idType \in IdTypes, subType \in SubTypes, width \in AccountWidths :
         \E x \in SourceValues(idType), sub \in SubValues(subType) :
            deriv = [step |-> "start", idType |-> idType, x |-> x,
                   subType |-> subType, sub |-> sub, width |-> width,
                   account |-> DefaultAccount(width), corrupt |-> 0, back |-> NotRun]

IntoSubAccountStep ==
    /\ deriv.step = "start"
    /\ deriv' = [deriv EXCEPT
                 !.step = "derived",
                 !.account = IntoSubAccount(deriv.idType, deriv.x, deriv.subType, deriv.sub,
                                            deriv.width)]
    /\ UNCHANGED <<pipeVars, ioVars>>

\* The byte positions of the zero run that ends the encoding of an identifier.
TrailingZeroBytes(account) ==
    LET d == EncodeUint(account)
    IN  { k \in 1..Len(d) : \A j \in k..Len(d) : d[j] = 0 }

\* The identifier with byte k of its encoding replaced by v.
WithByte(account, k, v) == Reverse([EncodeUint(account) EXCEPT ![k] = v])

\* Someone hands out an identifier that differs from the derived one in one
\* of its trailing zero bytes.
CorruptStep ==
    /\ deriv.step = "derived"
    /\ \E k \in TrailingZeroBytes(deriv.account), v \in ByteSample \ {0} :
         /\ ValidAccountBytes(deriv.width, EncodeUint(WithByte(deriv.account, k, v)))
         /\ deriv' = [deriv EXCEPT
                        !.step = "corrupted",
                        !.corrupt = k,
                        !.account = WithByte(deriv.account, k, v)]
    /\ UNCHANGED <<pipeVars, ioVars>>

TryFromSubAccountStep ==
    /\ deriv.step \in {"derived", "corrupted"}
    /\ deriv' = [deriv EXCEPT
                 !.step = IF deriv.step = "derived" THEN "recovered" ELSE "rechecked",
                 !.back = TryFromSubAccount(deriv.idType, deriv.subType, deriv.account)]
    /\ UNCHANGED <<pipeVars, ioVars>>

NextAccount ==
    \/ IntoSubAccountStep
    \/ CorruptStep
    \/ TryFromSubAccountStep

SpecAccount == InitAccount /\ [][NextAccount]_vars

----------------------------------------------------------------------------
(* Three derivations from one source value: into_account(),                 *)
(* into_sub_account(0u32) and into_sub_account(vec![0u8; 0]).               *)

Ways == {"into_account", "0u32", "empty vec"}

InitAlias ==
    /\ ext = <<>>
    /\ args \in { a \in Args : a.who = "alice" }
    /\ stage = "Idle"
    /\ signedRes = Pending
    /\ validRes = Pending
    /\ preRes = Pending
    /\ calls = <<>>
    /\ store = <<>>
    /\ before = <<>>
    /\ block = [step |-> "idle"]
    /\ adapter = [step |-> "idle"]
    /\ verification = [step |-> "idle"]
    /\ \E idType \in IdTypes, width \in AccountWidths :
         \E x \in SourceValues(idType) :
            deriv = [step |-> "source", idType |-> idType, x |-> x, width |-> width,
                     ids |-> <<>>]

\* The identifier one of the three calls returns is recorded under its name.
Record(way, account) ==
    /\ deriv.step = "source"
    /\ way \notin DOMAIN deriv.ids
    /\ deriv' = [deriv EXCEPT !.ids = (way :> account) @@ deriv.ids]
    /\ UNCHANGED <<pipeVars, ioVars>>

IntoAccountStep ==
    Record("into_account", IntoAccount(deriv.idType, deriv.x, deriv.width))

IntoSubAccountZeroStep ==
    Record("0u32", IntoSubAccount(deriv.idType, deriv.x, "u32", Zeros(4), deriv.width))

IntoSubAccountEmptyStep ==
    Record("empty vec", IntoSubAccount(deriv.idType, deriv.x, "bytes", <<>>, deriv.width))

NextAlias ==
    \/ IntoAccountStep
    \/ IntoSubAccountZeroStep
    \/ IntoSubAccountEmptyStep

SpecAlias == InitAlias /\ [][NextAlias]_vars

----------------------------------------------------------------------------
(* Reverse derivation alone: some identifier, wherever it came from, is     *)
(* handed to try_from_sub_account of each tagged type.                      *)

\* The first four encoded bytes explored: the two TYPE_IDs, the four bytes
\* of tests::bad_try_from_account_should_fail that are no TYPE_ID, and zeros.
Heads == { TYPE_ID(t) : t \in IdTypes } \cup { <<254, 202, 173, 186>>, Zeros(4) }

\* Encodings of the identifiers explored: u64 identifiers (tests::AccountId)
\* and u16 identifiers, the latter shorter than a TYPE_ID.
IdentifierBytes ==
    { h \o t : h \in Heads, t \in Numerals(4) }
        \cup Numerals(2) \cup { SubSeq(h, 1, 2) : h \in Heads }

InitReverse ==
    /\ ext = <<>>
    /\ args \in { a \in Args : a.who = "alice" }
    /\ stage = "Idle"
    /\ signedRes = Pending
    /\ validRes = Pending
    /\ preRes = Pending
    /\ calls = <<>>
    /\ store = <<>>
    /\ before = <<>>
    /\ block = [step |-> "idle"]
    /\ adapter = [step |-> "idle"]
    /\ verification = [step |-> "idle"]
    /\ \E d \in IdentifierBytes, subType \in SubTypes :
         deriv = [step |-> "given", account |-> Reverse(d), subType |-> subType,
                  back |-> [t \in IdTypes |-> NotRun]]

\* <Id as AccountIdConversion<T>>::try_from_sub_account::<S>(&account)
ReverseStep ==
    /\ deriv.step = "given"
    /\ \E t \in IdTypes :
         /\ deriv.back[t] = NotRun
         /\ deriv' = [deriv EXCEPT
                        !.back[t] = TryFromSubAccount(t, deriv.subType, deriv.account)]
    /\ UNCHANGED <<pipeVars, ioVars>>

NextReverse == ReverseStep

SpecReverse == InitReverse /\ [][NextReverse]_vars

----------------------------------------------------------------------------
(* AppendZerosInput<T> and the sources T it wraps.  A source is a finite    *)
(* run of bytes that is read from the front; a "slice" source reports how   *)
(* many bytes it has left (as &[u8] does), a "stream" source reports that   *)
(* as unknown (as a reader over I/O does), and the remaining_len of a       *)
(* "failing" source returns an error.                                       *)

SourceKinds == {"slice", "stream", "failing"}

\* self.0.remaining_len()
SourceRemainingLen(kind, rest) ==
    CASE kind = "slice" -> Ok(Some(Len(rest)))
      [] kind = "stream" -> Ok(None)
      [] kind = "failing" -> Err("remaining_len")

\* A read that returned an error: nothing was taken from the source.
ReadFailed(rest) == [ok |-> FALSE, val |-> <<>>, rest |-> rest]

\* The loop of the unknown-length branch: self.0.read_byte() until the
\* buffer of n bytes is full or read_byte fails.
RECURSIVE FillByteByByte(_, _, _)
FillByteByByte(rest, got, n) ==
    IF Len(got) < n
    THEN LET b == SliceRead(rest, 1)
         IN  IF b.ok
             THEN FillByteByByte(b.rest, got \o b.val, n)
             ELSE [val |-> got, rest |-> rest]
    ELSE [val |-> got, rest |-> rest]

\* Variant that hands the source's error on when the source cannot fill the
\* buffer.
AppendZerosReadStrict(kind, rest, n) ==
    LET r == SliceRead(rest, n)
    IN  IF r.ok THEN r ELSE ReadFailed(rest)

\* Variant that takes nothing from a source that cannot fill the buffer.
AppendZerosReadAllOrNothing(kind, rest, n) ==
    LET r == SliceRead(rest, n)
    IN  IF r.ok THEN r ELSE [ok |-> TRUE, val |-> Zeros(n), rest |-> rest]

\* codec::Input::read for AppendZerosInput, into a buffer of n bytes
AppendZerosRead(kind, rest, n) ==
    LET remaining == SourceRemainingLen(kind, rest)
    IN  IF ~remaining.ok THEN ReadFailed(rest)
        ELSE IF remaining.val.tag = "Some"
        THEN LET readable == Min(n, remaining.val.val)
                 r == SliceRead(rest, readable)
             IN  IF ~r.ok THEN ReadFailed(rest)
                 ELSE [ok |-> TRUE,
                       val |-> r.val \o Zeros(n - readable),
                       rest |-> r.rest]
        ELSE LET f == FillByteByByte(rest, <<>>, n)
             IN  [ok |-> TRUE,
                  val |-> f.val \o Zeros(n - Len(f.val)),
                  rest |-> f.rest]

\* codec::Input::remaining_len for TrailingZeroInput
TrailingZeroRemainingLen(rest) == Ok(None)

\* Variant that reports what the wrapped source reports.
AppendZerosRemainingLenOfSource(kind, rest) == SourceRemainingLen(kind, rest)

\* codec::Input::remaining_len for AppendZerosInput
AppendZerosRemainingLen(kind, rest) == Ok(None)

----------------------------------------------------------------------------
(* One adapter over one source: reads of any lengths, and questions about   *)
(* the remaining length, in any order.                                      *)

AdapterImpls == {"TrailingZeroInput", "AppendZerosInput"}

\* The bytes of tests::trailing_zero_should_work, and zero.
DataBytes == {0, 1, 2, 3}

Sources == UNION { [1..n -> DataBytes] : n \in 0..MaxData }

NoRead == [k |-> 0, ok |-> TRUE, val |-> <<>>, from |-> <<>>]

NotAsked == [reads |-> -1, left |-> 0, answer |-> Err("not asked")]

InitAdapter ==
    /\ ext = <<>>
    /\ args \in { a \in Args : a.who = "alice" }
    /\ stage = "Idle"
    /\ signedRes = Pending
    /\ validRes = Pending
    /\ preRes = Pending
    /\ calls = <<>>
    /\ store = <<>>
    /\ before = <<>>
    /\ block = [step |-> "idle"]
    /\ deriv = [step |-> "idle"]
    /\ verification = [step |-> "idle"]
    /\ \E impl \in AdapterImpls, kind \in SourceKinds, data \in Sources :
         /\ impl = "TrailingZeroInput" => kind = "slice"
         /\ adapter = [step |-> "open", impl |-> impl, source |-> kind,
                       data |-> data, rest |-> data, out |-> <<>>,
                       requested |-> 0, reads |-> 0, last |-> NoRead,
                       asked |-> NotAsked]

\* The adapter after a read of k bytes that returned r.
AfterRead(k, r) ==
    [adapter EXCEPT
        !.rest = r.rest,
        !.out = IF r.ok THEN adapter.out \o r.val ELSE adapter.out,
        !.requested = IF r.ok THEN adapter.requested + k ELSE adapter.requested,
        !.reads = adapter.reads + 1,
        !.last = [k |-> k, ok |-> r.ok, val |-> r.val, from |-> adapter.rest]]

TrailingZeroReadStep ==
    /\ adapter.step = "open"
    /\ adapter.impl = "TrailingZeroInput"
    /\ adapter.reads < MaxReads
    /\ \E k \in 0..MaxRead :
         adapter' = AfterRead(k, TrailingZeroRead(adapter.rest, k))
    /\ UNCHANGED <<pipeVars, deriv, verification, block>>

AppendZerosReadStep ==
    /\ adapter.step = "open"
    /\ adapter.impl = "AppendZerosInput"
    /\ adapter.reads < MaxReads
    /\ \E k \in 0..MaxRead :
         adapter' = AfterRead(k, AppendZerosRead(adapter.source, adapter.rest, k))
    /\ UNCHANGED <<pipeVars, deriv, verification, block>>

\* The adapter after remaining_len answered.
AfterAsking(answer) ==
    [adapter EXCEPT
        !.asked = [reads |-> adapter.reads, left |-> Len(adapter.rest),
                   answer |-> answer]]

TrailingZeroRemainingLenStep ==
    /\ adapter.step = "open"
    /\ adapter.impl = "TrailingZeroInput"
    /\ adapter' = AfterAsking(TrailingZeroRemainingLen(adapter.rest))
    /\ UNCHANGED <<pipeVars, deriv, verification, block>>

AppendZerosRemainingLenStep ==
    /\ adapter.step = "open"
    /\ adapter.impl = "AppendZerosInput"
    /\ adapter' = AfterAsking(AppendZerosRemainingLen(adapter.source, adapter.rest))
    /\ UNCHANGED <<pipeVars, deriv, verification, block>>

NextAdapter ==
    \/ TrailingZeroReadStep
    \/ AppendZerosReadStep
    \/ TrailingZeroRemainingLenStep
    \/ AppendZerosRemainingLenStep

SpecAdapter == InitAdapter /\ [][NextAdapter]_vars

----------------------------------------------------------------------------
(* The two adapters side by side: a TrailingZeroInput and an                *)
(* AppendZerosInput over a &[u8], both wrapping the same bytes, are read    *)
(* with the same buffer lengths.                                            *)

InitPair ==
    /\ ext = <<>>
    /\ args \in { a \in Args : a.who = "alice" }
    /\ stage = "Idle"
    /\ signedRes = Pending
    /\ validRes = Pending
    /\ preRes = Pending
    /\ calls = <<>>
    /\ store = <<>>
    /\ before = <<>>
    /\ block = [step |-> "idle"]
    /\ deriv = [step |-> "idle"]
    /\ verification = [step |-> "idle"]
    /\ \E data \in Sources :
         adapter = [step |-> "pair", data |-> data, trailing |-> data,
                    appended |-> data, reads |-> 0,
                    last |-> [k |-> 0, trailing |-> NoRead, appended |-> NoRead]]

\* What a read of k bytes returned, and what the adapter held before it.
Outcome(k, r, from) == [k |-> k, ok |-> r.ok, val |-> r.val, from |-> from]

PairReadStep ==
    /\ adapter.step = "pair"
    /\ adapter.reads < MaxReads
    /\ \E k \in 0..MaxRead :
         LET t == TrailingZeroRead(adapter.trailing, k)
             a == AppendZerosRead("slice", adapter.appended, k)
         IN  adapter' = [adapter EXCEPT
                           !.trailing = t.rest,
                           !.appended = a.rest,
                           !.reads = adapter.reads + 1,
                           !.last = [k |-> k,
                                     trailing |-> Outcome(k, t, adapter.trailing),
                                     appended |-> Outcome(k, a, adapter.appended)]]
    /\ UNCHANGED <<pipeVars, deriv, verification, block>>

NextPair == PairReadStep

SpecPair == InitPair /\ [][NextPair]_vars

----------------------------------------------------------------------------
(* Verify.  The primitives of sp_io::crypto are functions of a small world  *)
(* of signers, messages and signatures: a well-formed signature was made by *)
(* one signer over one message (ecdsa signs the message's blake2_256), and  *)
(* a malformed one by nobody.                                               *)

Schemes == {"ed25519", "sr25519", "ecdsa"}

Signers == {"alice", "bob"}

\* The signers' public keys, as bytes.
Public(who) ==
    CASE who = "alice" -> <<2, 10>>
      [] who = "bob" -> <<3, 11>>

\* A public key that belongs to neither signer.
Unrelated == <<2, 99>>

PublicKeys == { Public(who) : who \in Signers } \cup {Unrelated}

Messages == {<<>>, <<1>>, <<1, 2>>}

\* sp_io::hashing::blake2_256: a digest names the message it was made of and
\* is no message itself.
Blake2_256(m) == [blake2_256 |-> m]

Sign(who, m) == [by |-> who, over |-> m, malformed |-> FALSE]

Malformed == [by |-> "nobody", over |-> <<>>, malformed |-> TRUE]

Signatures == { Sign(who, m) : who \in Signers, m \in Messages } \cup {Malformed}

\* sp_io::crypto::ed25519_verify(sig, msg, pubkey)
Ed25519Verify(sig, msg, pubkey) ==
    (~sig.malformed) /\ sig.over = msg /\ Public(sig.by) = pubkey

\* sp_io::crypto::sr25519_verify(pubkey, msg, sig)
Sr25519Verify(sig, msg, pubkey) ==
    (~sig.malformed) /\ sig.over = msg /\ Public(sig.by) = pubkey

\* sp_io::crypto::secp256k1_ecdsa_recover_compressed(sig, digest): an error
\* for a malformed signature, the signer's key for the digest that was
\* signed, and some other key for any other digest.
Secp256k1EcdsaRecoverCompressed(sig, digest) ==
    IF sig.malformed THEN Err("EcdsaVerifyError")
    ELSE IF digest = Blake2_256(sig.over) THEN Ok(Public(sig.by))
    ELSE Ok(Unrelated)

\* A Lazy<[u8]>: the message, and how many times get was called on it.
LazyOf(m) == [value |-> m, gets |-> 0]

\* Lazy::get
LazyGet(lazy) == [ref |-> lazy.value, lazy |-> [lazy EXCEPT !.gets = lazy.gets + 1]]

\* Variant that gets the message once to look at it and once to verify it.
Ed25519VerifyGettingTwice(sig, lazy, signer) ==
    LET g == LazyGet(lazy)
        h == LazyGet(g.lazy)
    IN  [ret |-> Len(g.ref) >= 0 /\ Ed25519Verify(sig, h.ref, signer), msg |-> h.lazy]

\* impl Verify for sp_core::ed25519::Signature
Ed25519SignatureVerify(sig, lazy, signer) ==
    LET g == LazyGet(lazy)
    IN  [ret |-> Ed25519Verify(sig, g.ref, signer), msg |-> g.lazy]

\* impl Verify for sp_core::sr25519::Signature
Sr25519SignatureVerify(sig, lazy, signer) ==
    LET g == LazyGet(lazy)
    IN  [ret |-> Sr25519Verify(sig, g.ref, signer), msg |-> g.lazy]

\* Variant that accepts whenever a key was recovered.
EcdsaVerifyAnyRecovered(sig, lazy, signer) ==
    LET g == LazyGet(lazy)
        r == Secp256k1EcdsaRecoverCompressed(sig, Blake2_256(g.ref))
    IN  [ret |-> r.ok, msg |-> g.lazy]

\* impl Verify for sp_core::ecdsa::Signature
EcdsaSignatureVerify(sig, lazy, signer) ==
    LET g == LazyGet(lazy)
        r == Secp256k1EcdsaRecoverCompressed(sig, Blake2_256(g.ref))
    IN  [ret |-> IF r.ok THEN signer = r.val ELSE FALSE, msg |-> g.lazy]

\* Verify::verify of the signature's scheme
VerifyOf(scheme, sig, lazy, signer) ==
    CASE scheme = "ed25519" -> Ed25519SignatureVerify(sig, lazy, signer)
      [] scheme = "sr25519" -> Sr25519SignatureVerify(sig, lazy, signer)
      [] scheme = "ecdsa" -> EcdsaSignatureVerify(sig, lazy, signer)

----------------------------------------------------------------------------
(* One verify call. *)

InitVerify ==
    /\ ext = <<>>
    /\ args \in { a \in Args : a.who = "alice" }
    /\ stage = "Idle"
    /\ signedRes = Pending
    /\ validRes = Pending
    /\ preRes = Pending
    /\ calls = <<>>
    /\ store = <<>>
    /\ before = <<>>
    /\ block = [step |-> "idle"]
    /\ deriv = [step |-> "idle"]
    /\ adapter = [step |-> "idle"]
    /\ \E scheme \in Schemes, sig \in Signatures, m \in Messages, signer \in PublicKeys :
         verification = [step |-> "called", scheme |-> scheme, sig |-> sig,
                         msg |-> LazyOf(m), signer |-> signer, ret |-> FALSE]

VerifyStep ==
    /\ verification.step = "called"
    /\ LET v == VerifyOf(verification.scheme, verification.sig, verification.msg,
                         verification.signer)
       IN  verification' = [verification EXCEPT
                              !.step = "returned", !.ret = v.ret, !.msg = v.msg]
    /\ UNCHANGED <<pipeVars, deriv, adapter, block>>

NextVerify == VerifyStep

SpecVerify == InitVerify /\ [][NextVerify]_vars

----------------------------------------------------------------------------
(* AppVerify.  An application signature or public key is a generic one      *)
(* wrapped in a type that belongs to one key type (tests::t is the key type *)
(* "test" over sr25519).  The wrappers of one application share their key   *)
(* type, which the model carries along only to show that nothing looks at   *)
(* it.                                                                      *)

KeyTypes == {"test", "dumy"}

Wrapped(keyType, v) == [key_type |-> keyType, inner |-> v]

\* let inner: &S = self.as_ref();
AsInner(appSig) == appSig.inner

\* <<T as AppKey>::Public as AppPublic>::Generic::from_ref(&signer)
FromRef(appSigner) == appSigner.inner

\* Variant that accepts the signatures of one key type only.
AppVerifyCheckingKeyType(scheme, appSig, lazy, appSigner) ==
    LET v == VerifyOf(scheme, AsInner(appSig), lazy, FromRef(appSigner))
    IN  [ret |-> appSig.key_type = "test" /\ v.ret, msg |-> v.msg]

\* impl AppVerify for T
AppVerify(scheme, appSig, lazy, appSigner) ==
    VerifyOf(scheme, AsInner(appSig), lazy, FromRef(appSigner))

\* One application signature, verified through AppVerify and, unwrapped,
\* through Verify; each call gets the message as a fresh Lazy.
InitAppVerify ==
    /\ ext = <<>>
    /\ args \in { a \in Args : a.who = "alice" }
    /\ stage = "Idle"
    /\ signedRes = Pending
    /\ validRes = Pending
    /\ preRes = Pending
    /\ calls = <<>>
    /\ store = <<>>
    /\ before = <<>>
    /\ block = [step |-> "idle"]
    /\ deriv = [step |-> "idle"]
    /\ adapter = [step |-> "idle"]
    /\ \E scheme \in Schemes, keyType \in KeyTypes, sig \in Signatures,
          m \in Messages, signer \in PublicKeys :
         verification = [step |-> "app", scheme |-> scheme,
                         sig |-> Wrapped(keyType, sig), value |-> m,
                         signer |-> Wrapped(keyType, signer), results |-> <<>>]

\* The boolean one of the two calls returns is recorded under its name.
Returns(call, v) ==
    /\ verification.step = "app"
    /\ call \notin DOMAIN verification.results
    /\ verification' = [verification EXCEPT
                           !.results = (call :> v.ret) @@ verification.results]
    /\ UNCHANGED <<pipeVars, deriv, adapter, block>>

AppVerifyStep ==
    Returns("AppVerify",
            AppVerify(verification.scheme, verification.sig,
                      LazyOf(verification.value), verification.signer))

InnerVerifyStep ==
    Returns("Verify",
            VerifyOf(verification.scheme, verification.sig.inner,
                     LazyOf(verification.value), verification.signer.inner))

NextAppVerify ==
    \/ AppVerifyStep
    \/ InnerVerifyStep

SpecAppVerify == InitAppVerify /\ [][NextAppVerify]_vars

----------------------------------------------------------------------------
(* Hash, Header and Block.  A header is its five fields; hash values are    *)
(* short byte strings, the number is one byte and the digest a list of      *)
(* one-byte items.  A block is a header and a list of one-byte extrinsics.  *)

\* impl Hash for BlakeTwo256: fn hash(s: &[u8])
BlakeTwo256Hash(bytes) == Blake2_256(bytes)

HashValues == {<<0, 0>>, <<171, 205>>}

NumberValues == {<<0>>, <<1>>}

DigestItems == {5}

Digests == UNION { [1..n -> DigestItems] : n \in 0..MaxLogs }

ExtrinsicLists == {<<>>, <<9>>}

\* Header::new
NewHeader(number, extrinsics_root, state_root, parent_hash, digest) ==
    [parent_hash |-> parent_hash, number |-> number, state_root |-> state_root,
     extrinsics_root |-> extrinsics_root, digest |-> digest]

\* Encode for the header: its fields in declaration order, the digest as a
\* length-prefixed list.
EncodeHeader(h) ==
    h.parent_hash \o EncodeUint(h.number) \o h.state_root \o h.extrinsics_root
        \o <<4 * Len(h.digest)>> \o h.digest

\* Block::new
NewBlock(header, extrinsics) == [header |-> header, extrinsics |-> extrinsics]

\* Block::header
BlockHeader(b) == b.header

\* Encode for the block: the header, then the extrinsics as a list.
EncodeBlock(b) ==
    EncodeHeader(b.header) \o <<4 * Len(b.extrinsics)>> \o b.extrinsics

\* Hash::hash_of, of a header
HashOf(h) == BlakeTwo256Hash(EncodeHeader(h))

\* Variant that hashes the header as it is before its digest is filled.
HeaderHashWithoutDigest(h) == HashOf([h EXCEPT !.digest = <<>>])

\* Header::hash
HeaderHash(h) == HashOf(h)

\* Variant that hashes the whole encoded block.
BlockHashOfBlock(b) == BlakeTwo256Hash(EncodeBlock(b))

\* Block::hash
BlockHash(b) == HashOf(BlockHeader(b))

----------------------------------------------------------------------------
(* One header: setters change it, hash() is called on it and on two blocks  *)
(* built on it with different extrinsics, in any order.                     *)

InitBlock ==
    /\ ext = <<>>
    /\ args \in { a \in Args : a.who = "alice" }
    /\ stage = "Idle"
    /\ signedRes = Pending
    /\ validRes = Pending
    /\ preRes = Pending
    /\ calls = <<>>
    /\ store = <<>>
    /\ before = <<>>
    /\ deriv = [step |-> "idle"]
    /\ adapter = [step |-> "idle"]
    /\ verification = [step |-> "idle"]
    /\ \E number \in NumberValues, digest \in Digests,
          extrinsics_root, state_root, parent_hash \in HashValues :
         LET h == NewHeader(number, extrinsics_root, state_root, parent_hash, digest)
         IN  block = [step |-> "open", created |-> h, header |-> h,
                      extrinsics |-> <<>>, others |-> <<9>>,
                      sets |-> 0, hashes |-> <<>>]

\* The header after a setter call.
AfterSet(h) ==
    /\ block.step = "open"
    /\ block.sets < MaxSets
    /\ block' = [block EXCEPT !.header = h, !.sets = block.sets + 1]
    /\ UNCHANGED <<pipeVars, deriv, adapter, verification>>

SetNumber ==
    \E number \in NumberValues : AfterSet([block.header EXCEPT !.number = number])

SetExtrinsicsRoot ==
    \E root \in HashValues : AfterSet([block.header EXCEPT !.extrinsics_root = root])

SetStateRoot ==
    \E root \in HashValues : AfterSet([block.header EXCEPT !.state_root = root])

SetParentHash ==
    \E hash \in HashValues : AfterSet([block.header EXCEPT !.parent_hash = hash])

\* digest_mut(): the caller pushes an item, or clears the digest.
DigestMut ==
    \/ /\ Len(block.header.digest) < MaxLogs
       /\ \E item \in DigestItems :
            AfterSet([block.header EXCEPT !.digest = Append(@, item)])
    \/ /\ block.header.digest # <<>>
       /\ AfterSet([block.header EXCEPT !.digest = <<>>])

\* The hash one call returned, and how many setter calls had been made.
Hashed(call, hash) ==
    /\ block.step = "open"
    /\ block' = [block EXCEPT
                    !.hashes = (call :> [at |-> block.sets, hash |-> hash]) @@ block.hashes]
    /\ UNCHANGED <<pipeVars, deriv, adapter, verification>>

HeaderHashStep == Hashed("header", HeaderHash(block.header))

BlockHashStep == Hashed("block", BlockHash(NewBlock(block.header, block.extrinsics)))

OtherBlockHashStep == Hashed("other block", BlockHash(NewBlock(block.header, block.others)))

NextBlock ==
    \/ SetNumber
    \/ SetExtrinsicsRoot
    \/ SetStateRoot
    \/ SetParentHash
    \/ DigestMut
    \/ HeaderHashStep
    \/ BlockHashStep
    \/ OtherBlockHashStep

SpecBlock == InitBlock /\ [][NextBlock]_vars

----------------------------------------------------------------------------
(* Views of the history *)

CallsOf(hook) == SelectSeq(calls, LAMBDA e : e.hook = hook)

Arity == Len(ext)

\* What member m's validate returns the first time it is called.
FirstValid(m) == IF "validate" \in m.overrides THEN m.valid ELSE Ok(DefaultValid)

\* The first position of the chain whose outcome is an error, 0 if none.
FirstFailing(outcome) ==
    LET bad == { i \in 1..Arity : ~outcome[i].ok }
    IN  IF bad = {} THEN 0 ELSE CHOOSE i \in bad : \A j \in bad : i <= j

\* Per position, what the member's hook returns.
SignedOutcomes == [i \in 1..Arity |-> ext[i].signed]

ValidOutcomes == [i \in 1..Arity |-> FirstValid(ext[i])]

\* The chain's validate has run and pre_dispatch has not: every validate in
\* the history belongs to that one call.
ValidateDone == (~IsPending(validRes)) /\ IsPending(preRes)

----------------------------------------------------------------------------
(* C1: the tuple's validate calls the members' validate left to right and   *)
(* stops at the first member that fails: when Ek is the first failing       *)
(* member, members 1..k are each called once in order, no member after Ek   *)
(* is called, and the tuple's result is exactly Ek's error.                 *)
InvC1 ==
    (ValidateDone /\ Arity >= 1) =>
        LET k == FirstFailing(ValidOutcomes)
            vc == CallsOf("validate")
        IN  /\ \A n \in 1..Len(vc) : vc[n].member = n
            /\ k # 0 => /\ Len(vc) = k
                        /\ ~validRes.ok
                        /\ validRes.val = ext[k].valid.val
                        /\ vc[k].ret = validRes

WitC1 ==
    /\ ValidateDone
    /\ Arity = 3
    /\ FirstValid(ext[1]).ok
    /\ ~FirstValid(ext[2]).ok
    /\ ~FirstValid(ext[3]).ok
    /\ ext[2].valid.val # ext[3].valid.val
    /\ validRes = Err(ext[2].valid.val)

----------------------------------------------------------------------------
(* C4: the tuple's additional_signed evaluates the members left to right;   *)
(* when a member fails the tuple fails with that member's error and no      *)
(* later member is evaluated; otherwise the result is the tuple whose       *)
(* position i is member i's additional-signed data.                         *)
InvC4 ==
    ((~IsPending(signedRes)) /\ Arity >= 1) =>
        LET k == FirstFailing(SignedOutcomes)
            sc == CallsOf("additional_signed")
        IN  /\ \A n \in 1..Len(sc) : sc[n].member = n
            /\ k # 0 => /\ Len(sc) = k
                        /\ ~signedRes.ok
                        /\ signedRes.val = ext[k].signed.val
            /\ k = 0 => /\ Len(sc) = Arity
                        /\ signedRes.ok
                        /\ Len(signedRes.val) = Arity
                        /\ \A i \in 1..Arity : signedRes.val[i] = ext[i].signed.val

WitC4 ==
    /\ ~IsPending(signedRes)
    /\ Arity = 3
    /\ ext[1].signed.ok
    /\ ~ext[2].signed.ok
    /\ ~ext[3].signed.ok
    /\ ext[2].signed.val # ext[3].signed.val
    /\ signedRes = Err(ext[2].signed.val)

----------------------------------------------------------------------------
(* C5: when every member validates successfully with descriptors v1..vn the *)
(* tuple's validate returns default.combine_with(v1)...combine_with(vn),    *)
(* the fold starting from the default descriptor and taking the members'    *)
(* descriptors in member order, and every member is called with the same    *)
(* who, call, info and len.                                                 *)

RECURSIVE FoldDescriptors(_)
\* default.combine_with(v1)...combine_with(vn) for the first n members
FoldDescriptors(n) ==
    IF n = 0 THEN DefaultValid
    ELSE CombineWith(FoldDescriptors(n - 1), FirstValid(ext[n]).val)

InvC5 ==
    (ValidateDone /\ Arity >= 1 /\ FirstFailing(ValidOutcomes) = 0) =>
        LET vc == CallsOf("validate")
        IN  /\ validRes.ok
            /\ validRes.val = FoldDescriptors(Arity)
            /\ Len(vc) = Arity
            /\ \A i \in 1..Arity : vc[i].member = i /\ vc[i].args = args

WitC5 ==
    /\ ValidateDone
    /\ Arity = 3
    /\ validRes.ok
    /\ validRes.val.provides = <<"a", "b", "a">>
    /\ validRes.val.priority = 4

----------------------------------------------------------------------------
(* C2: the tuple's pre_dispatch calls each member's pre_dispatch at most    *)
(* once, left to right; at the first member that fails it returns that      *)
(* member's error and calls no later member; when every member succeeds the *)
(* result is the tuple of carries, position i holding exactly the carry     *)
(* member i returned.                                                       *)
InvC2 ==
    ((~IsPending(preRes)) /\ Arity >= 1) =>
        LET pc == CallsOf("pre_dispatch")
            n == Len(pc)
        IN  /\ n >= 1 /\ n <= Arity
            /\ \A j \in 1..n : pc[j].member = j
            /\ \A j \in 1..(n - 1) : pc[j].ret.ok
            /\ ~pc[n].ret.ok => preRes = pc[n].ret
            /\ pc[n].ret.ok => /\ n = Arity
                               /\ preRes.ok
                               /\ Len(preRes.val) = Arity
                               /\ \A i \in 1..Arity : preRes.val[i] = pc[i].ret.val

WitC2 ==
    /\ ~IsPending(preRes)
    /\ Arity = 3
    /\ Len(CallsOf("pre_dispatch")) = 2
    /\ "pre_dispatch" \in ext[1].overrides
    /\ "pre_dispatch" \notin ext[2].overrides
    /\ ~ext[3].pre.ok
    /\ preRes = Err("Stale")

----------------------------------------------------------------------------
(* C3: the tuple's post_dispatch calls every member's post_dispatch exactly *)
(* once, in left-to-right order, without short-circuit; member i receives   *)
(* the carry at position i of the tuple carry, also when that carry is the  *)
(* default value, together with the same info and len.                      *)
InvC3 ==
    (stage = "PostDispatched" /\ Arity >= 1) =>
        LET qc == CallsOf("post_dispatch")
        IN  /\ Len(qc) = Arity
            /\ \A i \in 1..Arity :
                  /\ qc[i].member = i
                  /\ qc[i].args.pre = preRes.val[i]
                  /\ qc[i].args.info = args.info
                  /\ qc[i].args.len = args.len

WitC3 ==
    /\ stage = "PostDispatched"
    /\ Arity = 3
    /\ preRes.val = <<DefaultPre, "imbalance", DefaultPre>>
    /\ Len(CallsOf("post_dispatch")) = 3

----------------------------------------------------------------------------
(* C6: an empty extension chain succeeds at every stage for any call and    *)
(* any account: additional_signed returns unit, validate returns the        *)
(* default descriptor, pre_dispatch returns the unit carry and              *)
(* post_dispatch does nothing.                                              *)
InvC6 ==
    (Arity = 0) =>
        /\ stage # "Rejected"
        /\ (~IsPending(signedRes)) => (signedRes.ok /\ signedRes.val = <<>>)
        /\ (~IsPending(validRes)) => (validRes.ok /\ validRes.val = DefaultValid)
        /\ (~IsPending(preRes)) => (preRes.ok /\ preRes.val = <<>>)
        /\ store = <<>>
        /\ \A n \in 1..Len(calls) : calls[n].hook = "dispatch"

WitC6 ==
    /\ Arity = 0
    /\ stage = "PostDispatched"
    /\ args.who = "bob"
    /\ Len(calls) = 1

----------------------------------------------------------------------------
(* C7: the provided pre_dispatch of an extension calls validate once with   *)
(* the same account, call, info and len; it returns the default carry       *)
(* exactly when validate succeeds and validate's error unchanged exactly    *)
(* when validate fails.                                                     *)

\* Positions in the history of the validate calls member i made at or after n.
ValidateCallsFrom(i, n) ==
    { k \in n..Len(calls) : calls[k].hook = "validate" /\ calls[k].member = i }

InvC7 ==
    \A n \in 1..Len(calls) :
        (calls[n].hook = "pre_dispatch"
            /\ "pre_dispatch" \notin ext[calls[n].member].overrides) =>
            /\ ValidateCallsFrom(calls[n].member, n) = {n + 1}
            /\ calls[n + 1].args = calls[n].args
            /\ calls[n].ret.ok <=> calls[n + 1].ret.ok
            /\ calls[n].ret.ok => calls[n].ret.val = DefaultPre
            /\ ~calls[n].ret.ok => calls[n].ret.val = calls[n + 1].ret.val

\* Member 1 inherits pre_dispatch and passes, member 2 inherits it and has gone
\* stale since pool admission.
DefaultPreCall(n, i) ==
    /\ calls[n].hook = "pre_dispatch"
    /\ calls[n].member = i
    /\ "pre_dispatch" \notin ext[i].overrides

WitC7 ==
    /\ Arity >= 2
    /\ \E n \in 1..Len(calls) :
          DefaultPreCall(n, 1) /\ calls[n].ret.ok /\ calls[n].ret.val = DefaultPre
    /\ \E n \in 1..Len(calls) :
          DefaultPreCall(n, 2) /\ ~calls[n].ret.ok /\ calls[n].ret.val = "Stale"

----------------------------------------------------------------------------
(* C8: the stages of one transaction occur only in the order validate,      *)
(* pre_dispatch, dispatch, post_dispatch: post_dispatch happens only after  *)
(* a successful pre_dispatch and the dispatch that follows it, an extension *)
(* is pre-dispatched at most once, and a transaction rejected at validation *)
(* or at pre_dispatch never reaches dispatch or post_dispatch.              *)

At(hook) == { n \in 1..Len(calls) : calls[n].hook = hook }

PreCallsOf(i) == { n \in At("pre_dispatch") : calls[n].member = i }

InvC8 ==
    /\ \A p \in At("pre_dispatch") : \A d \in At("dispatch") : p < d
    /\ \A d \in At("dispatch") : \A q \in At("post_dispatch") : d < q
    /\ At("pre_dispatch") # {} =>
          /\ validRes.ok
          /\ \A i \in 1..Arity : \E v \in At("validate") :
                /\ calls[v].member = i
                /\ \A p \in At("pre_dispatch") : v < p
    /\ \A i \in 1..Arity : Cardinality(PreCallsOf(i)) <= 1
    /\ Cardinality(At("dispatch")) <= 1
    /\ At("dispatch") # {} =>
          /\ validRes.ok /\ preRes.ok
          /\ \A i \in 1..Arity : \E p \in PreCallsOf(i) : calls[p].ret.ok
    /\ At("post_dispatch") # {} => At("dispatch") # {}
    /\ stage = "PostDispatched" => At("dispatch") # {}
    /\ (IsErr(validRes) \/ IsErr(preRes)) =>
          /\ stage = "Rejected"
          /\ At("dispatch") = {}
          /\ At("post_dispatch") = {}
    /\ IsErr(validRes) => At("pre_dispatch") = {}

WitC8 ==
    /\ stage = "PostDispatched"
    /\ Arity = 3
    /\ \E d \in At("dispatch") : calls[d].ret = "failed"
    /\ Cardinality(At("post_dispatch")) = 3

----------------------------------------------------------------------------
RECURSIVE PreWrites(_)
\* The mutations made by pre_dispatch of the first n members, in member order.
PreWrites(n) ==
    IF n = 0 THEN <<>>
    ELSE PreWrites(n - 1) \o
         (IF "pre_dispatch" \in ext[n].overrides /\ ext[n].writes /\ ext[n].pre.ok
          THEN <<Wr("pre_dispatch", n, args.who)>>
          ELSE <<>>)

----------------------------------------------------------------------------
(* C10: sub-account round trip.  For every source value x and sub-value sub *)
(* whose combined encoding TYPE_ID ++ encode(x) ++ encode(sub) fits within  *)
(* the identifier type's encoding width,                                    *)
(* try_from_sub_account(into_sub_account(x, sub)) returns exactly (x, sub). *)

\* Length of TYPE_ID ++ encode(x) ++ encode(sub), from the types' layouts.
CombinedLen ==
    4 + IdWidth(deriv.idType) +
    (CASE deriv.subType = "unit" -> 0
       [] deriv.subType = "u8" -> 1
       [] deriv.subType = "u16" -> 2
       [] deriv.subType = "bytes" -> 1 + Len(deriv.sub))

Fits == CombinedLen <= deriv.width

InvC10 ==
    (deriv.step = "recovered" /\ Fits) =>
        /\ deriv.back.tag = "Some"
        /\ deriv.back.val = <<deriv.x, deriv.sub>>

WitC10 ==
    /\ deriv.step = "recovered"
    /\ Fits
    /\ deriv.idType = "U16Value"
    /\ deriv.x = <<255, 1>>
    /\ deriv.subType = "bytes"
    /\ deriv.sub = <<1, 0>>
    /\ deriv.width = 16
    /\ deriv.account = <<0, 0, 0, 0, 0, 0, 0, 0, 1, 8, 255, 1, 240, 13, 202, 254>>
    /\ deriv.back = Some(<<deriv.x, deriv.sub>>)

----------------------------------------------------------------------------
(* C11: canonical rejection.  Take an identifier produced by                *)
(* into_sub_account and change one of its trailing zero bytes, one that     *)
(* lies beyond the tag and the encoded (source, sub) prefix, to a nonzero   *)
(* value: try_from_sub_account returns None.                                *)

\* The overwritten byte lies beyond TYPE_ID ++ encode(x) ++ encode(sub).
PrefixUntouched == deriv.corrupt > CombinedLen

InvC11 ==
    (deriv.step = "rechecked" /\ PrefixUntouched) => deriv.back = None

WitC11 ==
    /\ deriv.step = "rechecked"
    /\ PrefixUntouched
    /\ deriv.idType = "U32Value"
    /\ deriv.x = <<0, 0, 0, 1>>
    /\ deriv.subType = "bytes"
    /\ deriv.sub = <<255>>
    /\ deriv.width = 16
    /\ deriv.corrupt = 11
    /\ deriv.account = <<0, 0, 0, 0, 0, 1, 255, 4, 0, 0, 0, 1, 202, 254, 240, 13>>
    /\ deriv.back = None

----------------------------------------------------------------------------
(* C12: tag discrimination.  try_from_sub_account returns a value only when *)
(* the first 4 bytes of the identifier's encoding equal the type's TYPE_ID  *)
(* exactly; so for any identifier bytes and two types with distinct         *)
(* TYPE_IDs, at most one of the two reverse derivations succeeds.           *)

Succeeded(t) == deriv.back[t].tag = "Some"

TagMatches(t) ==
    LET d == EncodeUint(deriv.account)
    IN  Len(d) >= 4 /\ SubSeq(d, 1, 4) = TYPE_ID(t)

InvC12 ==
    /\ \A t \in IdTypes : Succeeded(t) => TagMatches(t)
    /\ \A t1, t2 \in IdTypes :
          TYPE_ID(t1) # TYPE_ID(t2) => ~(Succeeded(t1) /\ Succeeded(t2))

WitC12 ==
    /\ deriv.step = "given"
    /\ deriv.account = <<0, 0, 0, 1, 240, 13, 202, 254>>
    /\ deriv.subType = "u16"
    /\ deriv.back["U16Value"] = Some(<<(<<0, 1>>), (<<0, 0>>)>>)
    /\ deriv.back["U32Value"] = None

----------------------------------------------------------------------------
(* C15: reverse derivation rejects instead of failing.  For every           *)
(* identifier value, including one whose encoding is shorter than the       *)
(* 4-byte tag or whose remaining bytes do not decode as (source, sub),      *)
(* try_from_sub_account returns None or Some(..) and never aborts.          *)

Returned(t) == deriv.back[t].tag \in {"None", "Some"}

C15AsStated ==
    \A t \in IdTypes : deriv.back[t] # NotRun => Returned(t)

\* What the code does keep: identifiers whose encoding holds at least the
\* four tag bytes always get None or Some.
C15LongEnough ==
    \A t \in IdTypes :
        (deriv.back[t] # NotRun /\ Len(EncodeUint(deriv.account)) >= 4) => Returned(t)

----------------------------------------------------------------------------
(* C13: forward derivation is total and deterministic.  into_sub_account    *)
(* always returns an identifier: the decoding of the byte stream            *)
(* TYPE_ID ++ encode(x) ++ encode(sub) followed by unlimited zero bytes     *)
(* (so an identifier wider than the tuple encoding has a zero-filled tail:  *)
(* tag 0xCAFEF00D with u32 source 0xDEADBEEF gives the u64                  *)
(* 0xDEADBEEF_CAFEF00D), and the identifier type's default value when even  *)
(* that decoding fails.                                                     *)

\* Byte k of TYPE_ID ++ encode(x) ++ encode(sub) ++ 00 00 ..
StreamByte(k) ==
    LET b == EncodeTagged(deriv.idType, deriv.x, deriv.subType, deriv.sub)
    IN  IF k <= Len(b) THEN b[k] ELSE 0

\* The bytes an identifier of this width takes from the stream.
StreamHead == [k \in 1..deriv.width |-> StreamByte(k)]

Derived == deriv.step \in {"derived", "recovered"}

InvC13 ==
    Derived =>
        /\ Len(deriv.account) = deriv.width
        /\ ValidAccountBytes(deriv.width, EncodeUint(deriv.account))
        /\ IF ValidAccountBytes(deriv.width, StreamHead)
           THEN EncodeUint(deriv.account) = StreamHead
           ELSE deriv.account = DefaultAccount(deriv.width)

WitC13 ==
    /\ deriv.step = "derived"
    /\ deriv.idType = "U32Value"
    /\ deriv.x = <<222, 173, 190, 239>>
    /\ deriv.subType = "unit"
    /\ deriv.width = 8
    /\ deriv.account = <<222, 173, 190, 239, 202, 254, 240, 13>>

\* The other case of C13: the stream does not decode, the default is returned.
WitC13Default ==
    /\ deriv.step = "derived"
    /\ IsBool(deriv.width)
    /\ ~ValidAccountBytes(deriv.width, StreamHead)
    /\ deriv.account = <<0>>

----------------------------------------------------------------------------
(* C14: derived identifiers are not guaranteed distinct.  For every source  *)
(* value, into_account(), into_sub_account(0u32) and into_sub_account of an *)
(* empty byte vector all return the same identifier, so two different       *)
(* sub-values can derive one identifier.                                    *)

InvC14 ==
    \A a, b \in DOMAIN deriv.ids : deriv.ids[a] = deriv.ids[b]

WitC14 ==
    /\ deriv.step = "source"
    /\ DOMAIN deriv.ids = Ways
    /\ deriv.idType = "U16Value"
    /\ deriv.x = <<1, 255>>
    /\ deriv.width = 16
    /\ \A w \in Ways :
         deriv.ids[w] = <<0, 0, 0, 0, 0, 0, 0, 0, 0, 0, 1, 255, 240, 13, 202, 254>>

----------------------------------------------------------------------------
(* C16: for TrailingZeroInput over a finite slice s, every read succeeds,   *)
(* and after any sequence of reads of any lengths the concatenation of the  *)
(* bytes returned equals the prefix of that length of s followed by endless *)
(* zeros: each source byte is returned exactly once and in order, and every *)
(* byte read past the end of s is zero.                                     *)

\* Byte i of s followed by endless zeros.
Padded(s, i) == IF i <= Len(s) THEN s[i] ELSE 0

OverSlice == adapter.step = "open" /\ adapter.impl = "TrailingZeroInput"

InvC16 ==
    OverSlice =>
        /\ adapter.last.ok
        /\ Len(adapter.last.val) = adapter.last.k
        /\ Len(adapter.out) = adapter.requested
        /\ \A i \in 1..Len(adapter.out) : adapter.out[i] = Padded(adapter.data, i)

\* tests::trailing_zero_should_work
WitC16 ==
    /\ OverSlice
    /\ adapter.data = <<1, 2, 3>>
    /\ adapter.reads = 3
    /\ adapter.requested = 6
    /\ adapter.last.k = 2
    /\ adapter.last.val = <<0, 0>>
    /\ adapter.out = <<1, 2, 3, 0, 0, 0>>

----------------------------------------------------------------------------
(* C17: both padding adapters (TrailingZeroInput and AppendZerosInput)      *)
(* report remaining_len as unknown, Ok(None), in every state: before any    *)
(* read, between reads, and after the wrapped source is exhausted.          *)

Asked == adapter.step = "open" /\ adapter.asked.reads >= 0

\* The answer is Ok(None).
Unknown(answer) == answer.ok /\ answer.val.tag = "None"

InvC17 ==
    Asked => Unknown(adapter.asked.answer)

\* AppendZerosInput over a slice that two reads have emptied is asked.
WitC17 ==
    /\ Asked
    /\ adapter.impl = "AppendZerosInput"
    /\ adapter.source = "slice"
    /\ adapter.data = <<1, 2, 3>>
    /\ adapter.asked.reads = 2
    /\ adapter.asked.left = 0
    /\ Unknown(adapter.asked.answer)

\* The other states C17 names: before any read with bytes left, between
\* reads, and the other adapter after its slice is exhausted.
WitC17Before ==
    /\ Asked
    /\ adapter.impl = "AppendZerosInput"
    /\ adapter.asked.reads = 0
    /\ adapter.asked.left = 3

WitC17Between ==
    /\ Asked
    /\ adapter.impl = "TrailingZeroInput"
    /\ adapter.asked.reads = 1
    /\ adapter.asked.left = 1
    /\ adapter.reads = 2

WitC17Exhausted ==
    /\ Asked
    /\ adapter.impl = "TrailingZeroInput"
    /\ adapter.data = <<1, 2, 3>>
    /\ adapter.asked.reads = 3
    /\ adapter.asked.left = 0

----------------------------------------------------------------------------
(* C18: for AppendZerosInput over any wrapped source, whether the source    *)
(* reports its remaining length or reports it as unknown, a read of k bytes *)
(* takes min(k, bytes left in the source) bytes from the source in order,   *)
(* fills the rest of the buffer with zeros and succeeds; once the source is *)
(* exhausted every later read returns only zeros.                           *)

\* The source answers remaining_len with a length or with "unknown".
Reporting == adapter.source \in {"slice", "stream"}

HasRead ==
    adapter.step = "open" /\ adapter.impl = "AppendZerosInput" /\ adapter.reads > 0

\* Bytes the latest read took from the source.
Taken == Min(adapter.last.k, Len(adapter.last.from))

InvC18 ==
    (HasRead /\ Reporting) =>
        /\ adapter.last.ok
        /\ adapter.last.val =
              SubSeq(adapter.last.from, 1, Taken) \o Zeros(adapter.last.k - Taken)
        /\ adapter.rest = SubSeq(adapter.last.from, Taken + 1, Len(adapter.last.from))
        /\ adapter.last.from = <<>> => adapter.last.val = Zeros(adapter.last.k)

\* A stream source of three bytes: the second read takes the last byte and
\* pads, the third returns zeros only.
WitC18 ==
    /\ HasRead
    /\ adapter.source = "stream"
    /\ adapter.data = <<1, 2, 3>>
    /\ adapter.reads = 3
    /\ adapter.last.from = <<>>
    /\ adapter.last.k = 2
    /\ adapter.last.val = <<0, 0>>
    /\ adapter.out = <<1, 2, 3, 0, 0, 0>>

\* The read of a source whose remaining_len fails returns that error.
WitFailingSource ==
    /\ HasRead
    /\ adapter.source = "failing"
    /\ ~adapter.last.ok

----------------------------------------------------------------------------
(* C19: ecdsa verify returns true if and only if public-key recovery from   *)
(* (signature, blake2_256(message)) succeeds and the recovered compressed   *)
(* key is byte-equal to the claimed signer's key; a recovery failure yields *)
(* false and never an error or abort.                                       *)

EcdsaReturned == verification.step = "returned" /\ verification.scheme = "ecdsa"

\* What recovery from (signature, blake2_256(message)) gives.
Recovered ==
    Secp256k1EcdsaRecoverCompressed(verification.sig,
                                    Blake2_256(verification.msg.value))

RecoveredSigner == Recovered.ok /\ Recovered.val = verification.signer

InvC19 ==
    EcdsaReturned =>
        /\ verification.ret \in BOOLEAN
        /\ verification.ret <=> RecoveredSigner
        /\ ~Recovered.ok => verification.ret = FALSE

WitC19 ==
    /\ EcdsaReturned
    /\ verification.sig = Sign("alice", <<1, 2>>)
    /\ verification.msg.value = <<1, 2>>
    /\ verification.signer = <<2, 10>>
    /\ Recovered = Ok(<<2, 10>>)
    /\ verification.ret = TRUE

\* The other cases of C19: recovery fails; recovery gives another key.
WitC19RecoveryFails ==
    /\ EcdsaReturned
    /\ ~Recovered.ok
    /\ verification.ret = FALSE

WitC19OtherKey ==
    /\ EcdsaReturned
    /\ Recovered.ok
    /\ Recovered.val # verification.signer
    /\ verification.ret = FALSE

----------------------------------------------------------------------------
(* C20: in each of the three Verify implementations (ed25519, sr25519,      *)
(* ecdsa) a single verify call materializes the lazy message (calls         *)
(* Lazy::get) at most once.                                                 *)

InvC20 ==
    verification.step = "returned" => verification.msg.gets <= 1

WitC20 ==
    /\ verification.step = "returned"
    /\ verification.scheme = "ed25519"
    /\ verification.sig = Sign("bob", <<1>>)
    /\ verification.msg = [value |-> <<1>>, gets |-> 1]
    /\ verification.signer = <<3, 11>>
    /\ verification.ret = TRUE

----------------------------------------------------------------------------
(* C21: AppVerify::verify on a wrapped application signature returns, for   *)
(* every message and application public key, the same boolean as the        *)
(* generic Verify::verify called on the unwrapped inner signature with the  *)
(* same message and the signer translated to its generic public key; no     *)
(* runtime namespace tag influences the result.                             *)

BothReturned ==
    /\ verification.step = "app"
    /\ DOMAIN verification.results = {"AppVerify", "Verify"}

InvC21 ==
    BothReturned => verification.results["AppVerify"] = verification.results["Verify"]

\* A key type other than the tests', sr25519 as in tests::t: accepted both ways.
WitC21 ==
    /\ BothReturned
    /\ verification.scheme = "sr25519"
    /\ verification.sig = Wrapped("dumy", Sign("alice", <<1>>))
    /\ verification.value = <<1>>
    /\ verification.signer = Wrapped("dumy", <<2, 10>>)
    /\ verification.results["AppVerify"] = TRUE
    /\ verification.results["Verify"] = TRUE

----------------------------------------------------------------------------
(* C22: a block's hash equals the hash of its header,                       *)
(* Block::hash(b) = Header::hash(b.header()) for every block, so two blocks *)
(* with equal headers have equal hashes whatever their extrinsic lists are. *)

\* The calls a and b were both made on the header as it is now.
HashedNow(a, b) ==
    /\ block.step = "open"
    /\ {a, b} \subseteq DOMAIN block.hashes
    /\ block.hashes[a].at = block.sets
    /\ block.hashes[b].at = block.sets

InvC22 ==
    /\ HashedNow("block", "header") =>
          block.hashes["block"].hash = block.hashes["header"].hash
    /\ HashedNow("other block", "header") =>
          block.hashes["other block"].hash = block.hashes["header"].hash
    /\ HashedNow("block", "other block") =>
          block.hashes["block"].hash = block.hashes["other block"].hash

WitC22 ==
    /\ HashedNow("block", "header")
    /\ HashedNow("block", "other block")
    /\ block.extrinsics # block.others
    /\ block.sets = 1
    /\ block.header.number = <<1>>
    /\ block.created.number = <<0>>
    /\ block.hashes["block"].hash = block.hashes["header"].hash
    /\ block.hashes["block"].hash = block.hashes["other block"].hash

----------------------------------------------------------------------------
(* C23: a header's hash is never cached.  After any sequence of setter      *)
(* calls (set_number, set_extrinsics_root, set_state_root, set_parent_hash, *)
(* digest_mut), hash() equals the hashing function applied to the encoding  *)
(* of the header's current field values, not to any earlier values.         *)

\* hash() was called after the latest setter call.
HeaderHashedNow ==
    /\ block.step = "open"
    /\ "header" \in DOMAIN block.hashes
    /\ block.hashes["header"].at = block.sets

InvC23 ==
    HeaderHashedNow =>
        block.hashes["header"].hash = BlakeTwo256Hash(EncodeHeader(block.header))

\* Two setter calls later the hash is that of the new values and differs
\* from the hash of the values the header was created with.
WitC23 ==
    /\ HeaderHashedNow
    /\ block.sets = 2
    /\ block.created.digest = <<>>
    /\ block.header.digest = <<5>>
    /\ block.created.state_root = <<0, 0>>
    /\ block.header.state_root = <<171, 205>>
    /\ block.hashes["header"].hash = BlakeTwo256Hash(EncodeHeader(block.header))
    /\ block.hashes["header"].hash # BlakeTwo256Hash(EncodeHeader(block.created))

----------------------------------------------------------------------------
(* C24: over a byte slice the two padding adapters are equivalent.  For     *)
(* every slice s and every sequence of read lengths, AppendZerosInput       *)
(* wrapping s returns the same bytes on every read as TrailingZeroInput     *)
(* wrapping s, and both have consumed the same number of bytes of s after   *)
(* each read.                                                               *)

PairRead == adapter.step = "pair" /\ adapter.reads > 0

\* Bytes of s an adapter has consumed, given what it has left.
Consumed(rest) == Len(adapter.data) - Len(rest)

InvC24 ==
    PairRead =>
        /\ adapter.last.trailing.ok /\ adapter.last.appended.ok
        /\ adapter.last.appended.val = adapter.last.trailing.val
        /\ Len(adapter.last.appended.val) = adapter.last.k
        /\ Consumed(adapter.appended) = Consumed(adapter.trailing)

\* The second read crosses the end of the slice.
WitC24 ==
    /\ PairRead
    /\ adapter.data = <<1, 2, 3>>
    /\ adapter.reads = 2
    /\ adapter.last.k = 2
    /\ adapter.last.trailing.val = <<3, 0>>
    /\ adapter.last.appended.val = <<3, 0>>
    /\ Consumed(adapter.trailing) = 3
    /\ Consumed(adapter.appended) = 3

====
